---- MODULE Spec2Model ----
(***************************************************************************)
(* koop-auth-direct-file: a token-issuing auth plugin.                     *)
(*                                                                         *)
(* src/src/index.js holds two variants of the module:                      *)
(*   "req"  (lines 1-120)   authenticate(req) / authorize(req), with the   *)
(*                          useHttp option;                                *)
(*   "raw"  (lines 122-215) authenticate(username, password) /             *)
(*                          authorize(token), with a provider namespace.   *)
(* A behaviour of the model is one process that has loaded one of them.    *)
(* The module-level variables (_secret, ...) are the process-wide          *)
(* configuration; auth() is "configure".                                   *)
(*                                                                         *)
(* JavaScript values are records [t, v]: t is the type tag ("undefined",   *)
(* "num", "nan", "bool", "str") and v an integer payload, so that values   *)
(* of different JavaScript types can be compared.  All numbers drawn as    *)
(* inputs are integers.                                                    *)
(***************************************************************************)
EXTENDS Integers, FiniteSets, Sequences, TLC

VARIABLES
    variant,                    \* which variant of index.js is loaded
    _secret,                    \* let _secret
    _userStoreFilePath,         \* let _userStoreFilePath
    _useHttp,                   \* let _useHttp (variant "req" only)
    _tokenExpirationMinutes,    \* let _tokenExpirationMinutes
    handle,                     \* "none", or the path given to the auth() call that
                                \* returned the object the caller holds
    statPending,                \* paths whose fs.stat callback has not run yet
    crashed,                    \* an exception escaped a callback: the process is gone
    now,                        \* Date.now(), milliseconds
    ticks,                      \* number of clock advances so far
    pending,                    \* authenticate() calls waiting for validateCredentials
    last                        \* the latest step: the call and what its caller got back

vars == <<variant, _secret, _userStoreFilePath, _useHttp, _tokenExpirationMinutes,
          handle, statPending, crashed, now, ticks, pending, last>>

config == <<_secret, _userStoreFilePath, _useHttp, _tokenExpirationMinutes>>

----------------------------------------------------------------------------
(* Bounds of the model *)

MaxTicks == 2
MaxPending == 1

(* Program constants *)

TOKEN_EXPIRATION_MINUTES == 60

----------------------------------------------------------------------------
(* JavaScript values *)

Undefined == [t |-> "undefined", v |-> 0]
NaN       == [t |-> "nan", v |-> 0]
Num(n)    == [t |-> "num", v |-> n]
Bool(b)   == [t |-> "bool", v |-> IF b THEN 1 ELSE 0]
Str       == [t |-> "str", v |-> 1]        \* a non-empty, non-numeric string

\* JavaScript truthiness, as used by `x && ...` and `x || d`
Truthy(x) ==
    CASE x.t = "undefined" -> FALSE
      [] x.t = "nan"       -> FALSE
      [] x.t = "num"       -> x.v # 0
      [] x.t = "bool"      -> x.v = 1
      [] x.t = "str"       -> x.v # 0

\* x || d
OrElse(x, d) == IF Truthy(x) THEN x ELSE d

\* Number.isInteger(x)
IsInteger(x) == x.t = "num"

\* typeof x !== 'boolean'
NotBoolean(x) == x.t # "bool"

\* x * 60 * 1000 : a non-numeric string or undefined converts to NaN
TimesMinuteMs(x) ==
    CASE x.t = "num"  -> Num(x.v * 60 * 1000)
      [] x.t = "bool" -> Num(x.v * 60 * 1000)
      [] OTHER        -> NaN

\* a + b on numbers
Plus(a, b) == IF a.t = "num" /\ b.t = "num" THEN Num(a.v + b.v) ELSE NaN

\* Math.floor(x / 1000)
FloorSeconds(x) == IF x.t = "num" THEN Num(x.v \div 1000) ELSE NaN

----------------------------------------------------------------------------
(* Inputs *)

NoString == "undefined"                       \* an absent string argument
Secrets == {"s1", "s2"}
GoodPath == "users.json"
BadPath == "missing.json"
Paths == {GoodPath, BadPath}
UseHttpOptions == {Undefined, Bool(TRUE), Str}
LifetimeOptions == {Undefined, Num(0), Num(3), Num(5), Str}
Usernames == {"alice", "bob"}
Passwords == {"pw-a", "bad"}
TickStep == 150000
StartTime == 500

NoHandle == "none"

----------------------------------------------------------------------------
(* Promises: the first reject() or resolve() settles, later ones are ignored *)

PendingPromise == [state |-> "pending", err |-> [code |-> Undefined], value |-> Undefined]

Reject(p, err) ==
    IF p.state = "pending" THEN [p EXCEPT !.state = "rejected", !.err = err] ELSE p

Resolve(p, value) ==
    IF p.state = "pending" THEN [p EXCEPT !.state = "resolved", !.value = value] ELSE p

\* err.code = 401
Unauthorized == 401

----------------------------------------------------------------------------
(* Collaborators *)

\* The user store read by ./validate-credentials: alice is its only user
Users == [u \in {"alice"} |-> "pw-a"]

\* fs.stat(path) succeeds
Accessible(path) == path = GoodPath

\* validateCredentials(username, password, path): a promise of a boolean, or
\* a rejection when the store cannot be read
ValidateCredentials(username, password, path) ==
    IF ~Accessible(path) THEN "error"
    ELSE IF username \in DOMAIN Users /\ Users[username] = password THEN "valid"
    ELSE "invalid"

\* Tokens.  kind "jwt" is a well-formed token signed with sig; exp is a number,
\* undefined (no exp claim) or null (JSON of NaN).
Null == [t |-> "null", v |-> 0]
NoToken == [kind |-> "undefined", sig |-> NoString, exp |-> Undefined, sub |-> NoString]
Malformed == [kind |-> "malformed", sig |-> NoString, exp |-> Undefined, sub |-> NoString]
Jwt(secret, exp, sub) == [kind |-> "jwt", sig |-> secret, exp |-> exp, sub |-> sub]

\* jwt.sign(payload, secret) throws: no key, or "sub" is not a string
SignThrows(payload, secret) == secret = NoString \/ payload.sub = NoString

\* jwt.sign(payload, secret): NaN is serialised as null
JwtSign(payload, secret) ==
    Jwt(secret, IF payload.exp.t = "nan" THEN Null ELSE payload.exp, payload.sub)

\* jwt.verify(token, secret, cb) calls cb with an error
VerifyFails(token, secret, nowMs) ==
    \/ token.kind # "jwt"
    \/ secret = NoString
    \/ token.sig # secret
    \/ token.exp.t \notin {"num", "undefined"}
    \/ token.exp.t = "num" /\ nowMs \div 1000 >= token.exp.v

\* the payload jwt.verify decodes
Decoded(token) == [sub |-> token.sub, exp |-> token.exp]

----------------------------------------------------------------------------
(* auth(secret, userStoreFilePath, options) *)

\* variant "req": options.useHttp && typeof options.useHttp !== 'boolean'
UseHttpRejected(useHttp) == Truthy(useHttp) /\ NotBoolean(useHttp)

\* variant "req": options.tokenExpirationMinutes &&
\*   (!Number.isInteger(options.tokenExpirationMinutes) || options.tokenExpirationMinutes < 5)
LifetimeRejectedReq(lifetime) ==
    Truthy(lifetime) /\ (~IsInteger(lifetime) \/ lifetime.v < 5)

\* variant "raw": !Number.isInteger(_tokenExpirationMinutes) || _tokenExpirationMinutes < 5
LifetimeRejectedRaw(stored) == ~IsInteger(stored) \/ stored.v < 5

\* options.tokenExpirationMinutes || TOKEN_EXPIRATION_MINUTES
LifetimeOrDefault(lifetime) == OrElse(lifetime, Num(TOKEN_EXPIRATION_MINUTES))

ConfigureRecord(outcome, lifetime) ==
    [op |-> "configure", state |-> outcome, lifetime |-> lifetime]

\* variant "req", lines 18-42
ConfigureReq(secret, path, useHttp, lifetime) ==
    /\ variant = "req"
    /\ ~crashed
    /\ statPending' = statPending \cup {path}
    /\ _secret' = secret
    /\ _userStoreFilePath' = path
    /\ IF UseHttpRejected(useHttp)
       THEN /\ UNCHANGED <<_useHttp, _tokenExpirationMinutes, handle>>
            /\ last' = ConfigureRecord("threw", lifetime)
       ELSE /\ _useHttp' = OrElse(useHttp, Bool(FALSE))
            /\ IF LifetimeRejectedReq(lifetime)
               THEN /\ UNCHANGED <<_tokenExpirationMinutes, handle>>
                    /\ last' = ConfigureRecord("threw", lifetime)
               ELSE /\ _tokenExpirationMinutes' = LifetimeOrDefault(lifetime)
                    /\ handle' = path
                    /\ last' = ConfigureRecord("returned", lifetime)
    /\ UNCHANGED <<variant, crashed, now, ticks, pending>>

\* variant "raw", lines 137-156
ConfigureRaw(secret, path, lifetime) ==
    /\ variant = "raw"
    /\ ~crashed
    /\ statPending' = statPending \cup {path}
    /\ _secret' = secret
    /\ _userStoreFilePath' = path
    /\ _tokenExpirationMinutes' = LifetimeOrDefault(lifetime)
    /\ IF LifetimeRejectedRaw(LifetimeOrDefault(lifetime))
       THEN /\ UNCHANGED handle
            /\ last' = ConfigureRecord("threw", lifetime)
       ELSE /\ handle' = path
            /\ last' = ConfigureRecord("returned", lifetime)
    /\ UNCHANGED <<variant, _useHttp, crashed, now, ticks, pending>>

\* the callback of fs.stat, lines 20-22 and 139-141: `if (err) throw err` in a
\* callback is an uncaught exception, which ends the process: its memory, the
\* caller and every call in flight are gone
StatCallback(path) ==
    /\ ~crashed
    /\ path \in statPending
    /\ IF Accessible(path)
       THEN /\ statPending' = statPending \ {path}
            /\ last' = [op |-> "stat-callback", state |-> "ok"]
            /\ UNCHANGED <<config, handle, crashed, pending>>
       ELSE /\ crashed' = TRUE
            /\ _secret' = NoString
            /\ _userStoreFilePath' = NoString
            /\ _useHttp' = Undefined
            /\ _tokenExpirationMinutes' = Undefined
            /\ handle' = NoHandle
            /\ statPending' = {}
            /\ pending' = {}
            /\ last' = [op |-> "stat-callback", state |-> "threw"]
    /\ UNCHANGED <<variant, now, ticks>>

----------------------------------------------------------------------------
(* authenticationSpecification *)

\* mutant: `_useHttp = false` written for `useHttp: _useHttp`
DescribeReqAssigning ==
    /\ variant = "req"
    /\ ~crashed
    /\ handle # NoHandle
    /\ _useHttp' = Bool(FALSE)
    /\ last' = [op |-> "describe", state |-> "returned", useHttp |-> Bool(FALSE)]
    /\ UNCHANGED <<variant, _secret, _userStoreFilePath, _tokenExpirationMinutes, handle,
                   statPending, crashed, now, ticks, pending>>

\* variant "req", lines 48-52: { useHttp: _useHttp }
DescribeReq ==
    /\ variant = "req"
    /\ ~crashed
    /\ handle # NoHandle
    /\ last' = [op |-> "describe", state |-> "returned", useHttp |-> _useHttp]
    /\ UNCHANGED <<variant, config, handle, statPending, crashed, now, ticks, pending>>

\* variant "raw", lines 162-169: { provider: providerNamespace, secured: true }
DescribeRaw ==
    /\ variant = "raw"
    /\ ~crashed
    /\ handle # NoHandle
    /\ last' = [op |-> "describe", state |-> "returned", secured |-> Bool(TRUE)]
    /\ UNCHANGED <<variant, config, handle, statPending, crashed, now, ticks, pending>>

----------------------------------------------------------------------------
(* authenticate *)

\* err.code = 401 on new Error('Invalid credentials.'), lines 73-74 and 184-185
InvalidCredentialsError == [code |-> Num(Unauthorized)]

\* an error of a collaborator (file system, TypeError, jwt.sign): no code 401
OtherError == [code |-> Undefined]

\* mutant: the lifetime is not added
ExpiresAtNoLifetime(nowMs, lifetime) == Num(nowMs)

\* Date.now() + (_tokenExpirationMinutes * 60 * 1000), lines 78 and 188
ExpiresAt(nowMs, lifetime) == Plus(Num(nowMs), TimesMinuteMs(lifetime))

\* {exp: Math.floor(expires / 1000), sub: username}, lines 80 and 190
Payload(expires, username) == [exp |-> FloorSeconds(expires), sub |-> username]

\* mutant: the handler without its `if (!valid) reject(err)`
OnValidatedNoReject(p, valid, username, nowMs, lifetime, secret) ==
    LET expires == Plus(Num(nowMs), TimesMinuteMs(lifetime))
        payload == [exp |-> FloorSeconds(expires), sub |-> username]
    IN  IF SignThrows(payload, secret)
        THEN Reject(p, [code |-> Undefined])
        ELSE Resolve(p, [token |-> JwtSign(payload, secret), expires |-> expires])

\* the .then handler, lines 70-84 and 181-194, followed by .catch, lines 85-87
\* and 195-197: reject() does not return, so the token is built in either case;
\* an exception of jwt.sign goes to .catch
OnValidated(p, valid, username, nowMs, lifetime, secret) ==
    LET p1      == IF ~valid THEN Reject(p, InvalidCredentialsError) ELSE p
        expires == ExpiresAt(nowMs, lifetime)
        payload == Payload(expires, username)
    IN  IF SignThrows(payload, secret)
        THEN Reject(p1, OtherError)
        ELSE Resolve(p1, [token |-> JwtSign(payload, secret), expires |-> expires])

\* the promise of one authenticate call once validateCredentials has settled
Settle(call) ==
    IF call.outcome = "error"
    THEN Reject(PendingPromise, OtherError)
    ELSE OnValidated(PendingPromise, call.outcome = "valid", call.username, now,
                     _tokenExpirationMinutes, _secret)

\* the call as handed to validateCredentials, with the store's answer to come
Call(username, password) ==
    [username |-> username,
     outcome |-> ValidateCredentials(username, password, _userStoreFilePath)]

\* variant "req", lines 61-67: query first, then body
Extract(fromQuery, fromBody) == IF fromQuery # NoString THEN fromQuery ELSE fromBody

\* req.body.username is read only when the query gave nothing; it throws a
\* TypeError when the request has no body
ExtractThrows(req) ==
    /\ ~req.hasBody
    /\ req.query.username = NoString \/ req.query.password = NoString

Fields(username, password) == [username |-> username, password |-> password]
Request(query, body, hasBody) == [query |-> query, body |-> body, hasBody |-> hasBody]
AuthRequests ==
    {Request(Fields("alice", "pw-a"), Fields(NoString, NoString), FALSE),
     Request(Fields("alice", "pw-a"), Fields("bob", "bad"), TRUE),
     Request(Fields("alice", NoString), Fields("bob", "bad"), TRUE),
     Request(Fields(NoString, NoString), Fields("alice", "pw-a"), TRUE),
     Request(Fields(NoString, NoString), Fields("bob", "pw-a"), TRUE),
     Request(Fields(NoString, "pw-a"), Fields(NoString, NoString), TRUE),
     Request(Fields("alice", NoString), Fields(NoString, NoString), FALSE)}

\* variant "req", lines 59-69: the executor, up to the call of validateCredentials.
\* pending is a set: the calls in flight at one time differ from one another.
AuthenticateReq(req) ==
    /\ variant = "req"
    /\ ~crashed
    /\ handle # NoHandle
    /\ IF ExtractThrows(req)
       THEN /\ last' = [op |-> "authenticate-call",
                        promise |-> Reject(PendingPromise, OtherError)]
            /\ UNCHANGED pending
       ELSE /\ Cardinality(pending) < MaxPending
            /\ pending' = pending \cup
                 {Call(Extract(req.query.username, req.body.username),
                       Extract(req.query.password, req.body.password))}
            /\ pending' # pending
            /\ last' = [op |-> "authenticate-call", promise |-> PendingPromise]
    /\ UNCHANGED <<variant, config, handle, statPending, crashed, now, ticks>>

\* variant "raw", lines 177-180
AuthenticateRaw(username, password) ==
    /\ variant = "raw"
    /\ ~crashed
    /\ handle # NoHandle
    /\ Cardinality(pending) < MaxPending
    /\ pending' = pending \cup {Call(username, password)}
    /\ pending' # pending
    /\ last' = [op |-> "authenticate-call", promise |-> PendingPromise]
    /\ UNCHANGED <<variant, config, handle, statPending, crashed, now, ticks>>

\* validateCredentials settles and the handlers run, lines 70-87 and 181-197
AuthenticateCallback(call) ==
    /\ ~crashed
    /\ call \in pending
    /\ pending' = pending \ {call}
    /\ last' = [op |-> "authenticate", username |-> call.username,
                outcome |-> call.outcome, promise |-> Settle(call)]
    /\ UNCHANGED <<variant, config, handle, statPending, crashed, now, ticks>>

----------------------------------------------------------------------------
(* authorize *)

\* new Error('No authorization token.') with err.code = 401, lines 103-104
NoTokenError == [code |-> Num(Unauthorized)]

\* mutant: err.code is not set
VerifyErrorNoCode == [code |-> Undefined]

\* the error of jwt.verify with err.code = 401, lines 111 and 207
VerifyError == [code |-> Num(Unauthorized)]

\* variant "req", lines 99-101: the query token is assigned first, then the
\* authorization header is assigned over it
ExtractToken(req) ==
    LET fromQuery == IF req.query # NoToken THEN req.query ELSE NoToken
    IN  IF req.header # NoToken THEN req.header ELSE fromQuery

\* variant "req", lines 102-106: reject() does not return
CheckPresent(p, token) == IF token = NoToken THEN Reject(p, NoTokenError) ELSE p

\* mutant: the callback without its `if (err) reject(err)`
VerifyCallbackIgnoringErr(p, err, decoded) == Resolve(p, decoded)

\* the callback of jwt.verify, lines 108-116 and 204-211: reject() does not
\* return, so resolve(decoded) is called in either case
VerifyCallback(p, err, decoded) ==
    LET p1 == IF err THEN Reject(p, VerifyError) ELSE p
    IN  Resolve(p1, decoded)

\* jwt.verify(token, _secret, callback)
Verify(p, token) ==
    IF VerifyFails(token, _secret, now)
    THEN VerifyCallback(p, TRUE, Undefined)
    ELSE VerifyCallback(p, FALSE, Decoded(token))

\* the token of the authenticate call that has just resolved, if any
JustIssued ==
    IF last.op = "authenticate" /\ last.promise.state = "resolved"
    THEN {last.promise.value.token} ELSE {}

\* whom the token was issued to, when it is the one just issued
IssuedTo(token) == IF token \in JustIssued THEN last.username ELSE NoString

\* tokens a client may present
ForeignTokens ==
    {Jwt(s, Num(300), "alice") : s \in Secrets} \cup {Jwt("s1", Undefined, "bob")}
TokenInputs == ForeignTokens \cup {NoToken, Malformed} \cup JustIssued

\* requests a client may send: one token in either place, or a token in one
\* place and another in the other
AuthorizeRequests ==
    {[query |-> q, header |-> h] : q \in TokenInputs, h \in {NoToken}}
    \cup {[query |-> q, header |-> h] : q \in {NoToken}, h \in TokenInputs}
    \cup {[query |-> q, header |-> h] :
             q \in {Malformed}, h \in {Jwt("s1", Num(300), "alice")} \cup JustIssued}
    \cup {[query |-> q, header |-> h] :
             q \in {Jwt("s1", Num(300), "alice")} \cup JustIssued, h \in {Malformed}}

\* variant "req", lines 96-118.  A request without query and headers, and no
\* request at all, are the request whose two tokens are absent.
AuthorizeReq(req) ==
    /\ variant = "req"
    /\ ~crashed
    /\ handle # NoHandle
    /\ LET token == ExtractToken(req)
       IN  last' = [op |-> "authorize", query |-> req.query, header |-> req.header,
                    token |-> token,
                    issuedTo |-> IssuedTo(token),
                    promise |-> Verify(CheckPresent(PendingPromise, token), token)]
    /\ UNCHANGED <<variant, config, handle, statPending, crashed, now, ticks, pending>>

\* variant "raw", lines 201-213
AuthorizeRaw(token) ==
    /\ variant = "raw"
    /\ ~crashed
    /\ handle # NoHandle
    /\ last' = [op |-> "authorize", query |-> NoToken, header |-> NoToken,
                token |-> token,
                issuedTo |-> IssuedTo(token),
                promise |-> Verify(PendingPromise, token)]
    /\ UNCHANGED <<variant, config, handle, statPending, crashed, now, ticks, pending>>

----------------------------------------------------------------------------
(* The clock *)

Tick ==
    /\ ~crashed
    /\ ticks < MaxTicks
    /\ now' = now + TickStep
    /\ ticks' = ticks + 1
    /\ last' = [op |-> "tick", state |-> "none"]
    /\ UNCHANGED <<variant, config, handle, statPending, crashed, pending>>

----------------------------------------------------------------------------
(* The process *)

Init ==
    /\ variant \in {"req", "raw"}
    /\ _secret = NoString
    /\ _userStoreFilePath = NoString
    /\ _useHttp = Undefined
    /\ _tokenExpirationMinutes = Undefined
    /\ handle = NoHandle
    /\ statPending = {}
    /\ crashed = FALSE
    /\ now = StartTime
    /\ ticks = 0
    /\ pending = {}
    /\ last = [op |-> "load", state |-> "none"]

Next ==
    \/ \E secret \in Secrets, path \in Paths, useHttp \in UseHttpOptions,
          lifetime \in LifetimeOptions : ConfigureReq(secret, path, useHttp, lifetime)
    \/ \E secret \in Secrets, path \in Paths, lifetime \in LifetimeOptions :
          ConfigureRaw(secret, path, lifetime)
    \/ \E path \in Paths : StatCallback(path)
    \/ DescribeReq
    \/ DescribeRaw
    \/ \E req \in AuthRequests : AuthenticateReq(req)
    \/ \E username \in Usernames, password \in Passwords :
          AuthenticateRaw(username, password)
    \/ \E call \in pending : AuthenticateCallback(call)
    \/ \E req \in AuthorizeRequests : AuthorizeReq(req)
    \/ \E token \in TokenInputs : AuthorizeRaw(token)
    \/ Tick

Spec == Init /\ [][Next]_vars

----------------------------------------------------------------------------
(* Properties *)

Rejected401(p) == p.state = "rejected" /\ p.err.code = Num(Unauthorized)

\* C1: an authenticate call whose credentials the store reports invalid ends
\* rejected with code 401, and is not resolved with {token, expires}.
C1_InvalidCredentialsRejected ==
    (last.op = "authenticate" /\ last.outcome = "invalid")
        => Rejected401(last.promise) /\ last.promise.value = Undefined

C1_Witness ==
    /\ last.op = "authenticate"
    /\ last.outcome = "invalid"
    /\ last.username = "alice"
    /\ last.promise.state = "rejected"

\* the configuration in force is one auth() accepts: an integer lifetime >= 5
ValidConfiguration ==
    /\ _secret \in Secrets
    /\ IsInteger(_tokenExpirationMinutes)
    /\ _tokenExpirationMinutes.v >= 5

\* C2: under a valid configuration, authorize given the token authenticate has
\* just returned (no time passed, no auth() call in between) resolves with
\* claims whose subject is the username given to authenticate.
C2_RoundTrip ==
    (last.op = "authorize" /\ last.issuedTo # NoString /\ ValidConfiguration)
        => /\ last.promise.state = "resolved"
           /\ last.promise.value.sub = last.issuedTo

C2_Witness ==
    /\ last.op = "authorize"
    /\ last.issuedTo = "alice"
    /\ ValidConfiguration
    /\ last.promise.state = "resolved"

\* the one token a request supplies; a request with two different tokens
\* supplies no single one
SuppliesOne(l) == l.query = NoToken \/ l.header = NoToken \/ l.query = l.header
Supplied(l) ==
    IF variant = "raw" THEN l.token
    ELSE IF l.query # NoToken THEN l.query ELSE l.header

SignatureVerifies(token) ==
    token.kind = "jwt" /\ token.exp.t \in {"num", "undefined"} /\ token.sig = _secret
ExpiryPassed(token) == token.exp.t = "num" /\ token.exp.v * 1000 <= now

\* C3: authorize resolves, with the token's claims, exactly when the supplied
\* token is well formed, signed with the configured secret and not expired;
\* otherwise it is rejected with code 401.
C3_AuthorizeIff ==
    (last.op = "authorize" /\ SuppliesOne(last))
        => LET token == Supplied(last)
               valid == SignatureVerifies(token) /\ ~ExpiryPassed(token)
           IN  /\ valid => /\ last.promise.state = "resolved"
                           /\ last.promise.value = [sub |-> token.sub, exp |-> token.exp]
               /\ ~valid => Rejected401(last.promise) /\ last.promise.value = Undefined

\* a token with a valid signature whose expiry has passed is rejected
C3_Witness ==
    /\ last.op = "authorize"
    /\ SuppliesOne(last)
    /\ SignatureVerifies(Supplied(last))
    /\ ExpiryPassed(Supplied(last))
    /\ Rejected401(last.promise)

\* C4: authorize without a token (no query token and no authorization header,
\* or an undefined token) is rejected with code 401 and never resolved.
C4_NoTokenRejected ==
    (last.op = "authorize" /\ last.query = NoToken /\ last.header = NoToken
        /\ last.token = NoToken)
        => Rejected401(last.promise) /\ last.promise.value = Undefined

C4_Witness ==
    /\ last.op = "authorize"
    /\ last.query = NoToken /\ last.header = NoToken /\ last.token = NoToken
    /\ last.promise.state = "rejected"

\* C5: auth() throws whenever tokenExpirationMinutes is present and is not an
\* integer >= 5; when it is absent the lifetime is 60.
C5_BadLifetimeThrows ==
    last.op = "configure"
        => /\ (last.lifetime # Undefined
                 /\ ~(IsInteger(last.lifetime) /\ last.lifetime.v >= 5))
              => last.state = "threw"
           /\ (last.lifetime = Undefined /\ last.state = "returned")
              => _tokenExpirationMinutes = Num(TOKEN_EXPIRATION_MINUTES)

\* C6: authenticate and authorize are never invoked on an object that auth()
\* returned for a user store that cannot be statted.
C6_NoHandleForMissingStore ==
    last.op \in {"authenticate-call", "authorize"} => Accessible(handle)

\* C7: once auth() has returned, no later operation, a further auth() call
\* included, changes the configuration.
C7_ConfigurationImmutable ==
    [][(handle # NoHandle /\ ~crashed') => config' = config]_vars

\* C7, amended: once auth() has returned and while the process lives, no
\* describe, authenticate or authorize call (nor their callbacks) changes
\* the configuration; only a further auth() call does.
C7_OnlyConfigureWrites ==
    [][(handle # NoHandle /\ ~crashed' /\ last'.op # "configure") => config' = config]_vars

C7_Witness ==
    /\ handle # NoHandle
    /\ last.op = "authenticate"
    /\ last.promise.state = "resolved"

\* C8: a resolved authenticate call returns expires = now + lifetime * 60000
\* with the lifetime the configuration holds, and a token with sub = username
\* and exp = floor(expires / 1000), so exp * 1000 <= expires < exp * 1000 + 1000.
C8_ExpiryArithmetic ==
    (last.op = "authenticate" /\ last.promise.state = "resolved")
        => LET json == last.promise.value
           IN  /\ _tokenExpirationMinutes.t = "num"
               /\ json.expires = Num(now + _tokenExpirationMinutes.v * 60000)
               /\ json.token.sub = last.username
               /\ json.token.exp = Num(json.expires.v \div 1000)
               /\ json.token.exp.v * 1000 <= json.expires.v
               /\ json.expires.v < json.token.exp.v * 1000 + 1000

\* C9: when a request carries a token in the query and another in the
\* authorization header, the query token is the one verified.
C9_QueryTokenPreferred ==
    (last.op = "authorize" /\ variant = "req"
        /\ last.query # NoToken /\ last.header # NoToken)
        => /\ last.token = last.query
           /\ (last.promise.state = "resolved") = ~VerifyFails(last.query, _secret, now)

\* C10: an auth() call that throws leaves the configuration used by the
\* objects returned earlier unchanged.
C10_FailedConfigureChangesNothing ==
    [][(handle # NoHandle /\ last'.op = "configure" /\ last'.state = "threw")
         => config' = config]_vars

====
